---- MODULE Spec2Model ----
(***************************************************************************)
(* Model of fg.py, the "vessel - spill" analysis script.                   *)
(*                                                                         *)
(* A table (DataFrame / GeoDataFrame) is a record                          *)
(*   [none |-> the Python value is None, columns |-> optional columns,     *)
(*    rows |-> the rows in table order]                                    *)
(* and every row carries its index label in the field "index".            *)
(* Instants are minutes since 2024-01-01 00:00; a text cell is a record    *)
(* [kind |-> "stamp" or "junk", v |-> n]: a "stamp" is text that spells    *)
(* the instant n in the pattern the parser expects, "junk" is any other    *)
(* text.  Polygons are axis-aligned rectangles in EPSG:4326.               *)
(***************************************************************************)
EXTENDS Integers, Sequences, FiniteSets, TLC

VARIABLES spills_file, ais_file, time_window_hours,
          spills_gdf, vessels_gdf, candidates_df,
          vessel_tracks_geojson, report_df, unique_incidents,
          ship_incident_counts, prime_suspects_df,
          exception, pc

vars == <<spills_file, ais_file, time_window_hours,
          spills_gdf, vessels_gdf, candidates_df,
          vessel_tracks_geojson, report_df, unique_incidents,
          ship_incident_counts, prime_suspects_df,
          exception, pc>>

(* ------------------------------ bounds --------------------------------- *)

\* rows in one uploaded spill file / one spill table
MaxSpills == 2

\* rows in one uploaded AIS file / one track table
MaxTracks == 2

\* instants are the half hours 0, 30, ..., 30 * MaxTime
MaxTime == 3

\* the slider positions explored are 1 .. MaxWindow
MaxWindow == 2

(* --------------------------- program constants ------------------------- *)

NaT == 0 - 1

NaN == 0 - 1

MinWindow == 1

MinutesPerHour == 60

MinutesPerDay == 1440

(* ------------------------------ values --------------------------------- *)

Times == {30 * k : k \in 0 .. MaxTime}

Windows == MinWindow .. MaxWindow

Stamp(t) == [kind |-> "stamp", v |-> t]

Junk == [kind |-> "junk", v |-> 0]

PolyA == [xmin |-> 0, xmax |-> 4, ymin |-> 0, ymax |-> 2]

PolyB == [xmin |-> 2, xmax |-> 6, ymin |-> 0, ymax |-> 2]

Polys == {PolyA, PolyB}

\* longitudes: inside both polygons, and on PolyA's edge (inside PolyB only)
Lons == {3, 4}

\* every track point of the model lies on the polygons' middle parallel
Lat == (PolyA.ymin + PolyA.ymax) \div 2

None == [none |-> TRUE, columns |-> {}, rows |-> <<>>]

\* gpd.GeoDataFrame()
EmptyFrame == [none |-> FALSE, columns |-> {}, rows |-> <<>>]

Frame(cols, rs) == [none |-> FALSE, columns |-> cols, rows |-> rs]

\* DataFrame.empty
IsEmpty(df) == df.rows = <<>>

(* --------------------------- sequence helpers -------------------------- *)

RECURSIVE Concat(_)
Concat(ss) == IF ss = <<>> THEN <<>> ELSE Head(ss) \o Concat(Tail(ss))

\* sequences over S of length at most n
SeqUpTo(S, n) == UNION {[1 .. k -> S] : k \in 0 .. n}

(* ------------------------------ parsing -------------------------------- *)

\* pd.to_datetime(..., errors='coerce')
to_datetime(text) == IF text.kind = "stamp" THEN text.v ELSE NaT

\* gdf['date'] + ' ' + gdf['time']: a day text joined with a time-of-day text
DateTimeText(date, time) ==
    IF date.kind = "stamp" /\ time.kind = "stamp"
    THEN Stamp(date.v * MinutesPerDay + time.v)
    ELSE Junk

\* Timestamp.strftime('%Y-%m-%d %H:%M')
strftime(t) == [day    |-> t \div MinutesPerDay,
                hour   |-> (t % MinutesPerDay) \div MinutesPerHour,
                minute |-> t % MinutesPerHour]

(* ------------------------------ loaders -------------------------------- *)

load_spills_data(uploaded_file) ==
    IF ~uploaded_file.readable THEN None
    ELSE IF ~({"slick_name", "area_sys"} \subseteq uploaded_file.columns) THEN None
    ELSE LET raw == uploaded_file.rows
             dated(i) ==
                 [index          |-> i - 1,
                  spill_id       |-> raw[i].slick_name,
                  detection_date |->
                      IF {"date", "time"} \subseteq uploaded_file.columns
                      THEN to_datetime(DateTimeText(raw[i].date, raw[i].time))
                      ELSE to_datetime(raw[i].slick_name),
                  geometry       |-> raw[i].geometry]
             gdf == [i \in 1 .. Len(raw) |-> dated(i)]
             kept == SelectSeq(gdf, LAMBDA r : r.detection_date # NaT)
         IN  IF kept = <<>> THEN None ELSE Frame({}, kept)

\* variant: rows without a latitude are kept
load_ais_data_keeps_no_latitude(uploaded_file) ==
    IF ~uploaded_file.readable THEN None
    ELSE IF ~({"mmsi", "latitude", "longitude", "BaseDateTime"}
                  \subseteq uploaded_file.columns) THEN None
    ELSE LET raw == uploaded_file.rows
             stamped(i) ==
                 [index       |-> i - 1,
                  mmsi        |-> ToString(raw[i].mmsi),
                  vessel_name |-> raw[i].vessel_name,
                  timestamp   |-> to_datetime(raw[i].BaseDateTime),
                  latitude    |-> raw[i].latitude,
                  longitude   |-> raw[i].longitude]
             df == [i \in 1 .. Len(raw) |-> stamped(i)]
             kept == SelectSeq(df, LAMBDA r : /\ r.timestamp # NaT
                                                /\ r.longitude # NaN)
         IN  Frame(uploaded_file.columns \cap {"vessel_name"}, kept)

load_ais_data(uploaded_file) ==
    IF ~uploaded_file.readable THEN None
    ELSE IF ~({"mmsi", "latitude", "longitude", "BaseDateTime"}
                  \subseteq uploaded_file.columns) THEN None
    ELSE LET raw == uploaded_file.rows
             stamped(i) ==
                 [index       |-> i - 1,
                  mmsi        |-> ToString(raw[i].mmsi),
                  vessel_name |-> raw[i].vessel_name,
                  timestamp   |-> to_datetime(raw[i].BaseDateTime),
                  latitude    |-> raw[i].latitude,
                  longitude   |-> raw[i].longitude]
             df == [i \in 1 .. Len(raw) |-> stamped(i)]
             kept == SelectSeq(df, LAMBDA r : /\ r.timestamp # NaT
                                                /\ r.latitude # NaN
                                                /\ r.longitude # NaN)
         IN  Frame(uploaded_file.columns \cap {"vessel_name"}, kept)

(* ------------------------------ matcher -------------------------------- *)

\* variant: boundary points count as inside
Within_closed(row, poly) ==
    /\ poly.xmin <= row.longitude /\ row.longitude <= poly.xmax
    /\ poly.ymin <= row.latitude  /\ row.latitude <= poly.ymax

\* shapely "within" for a point and a polygon: the interior only
Within(row, poly) == /\ poly.xmin < row.longitude /\ row.longitude < poly.xmax
                     /\ poly.ymin < row.latitude  /\ row.latitude < poly.ymax

JoinRow(v, s) == [index          |-> v.index,
                  mmsi           |-> v.mmsi,
                  vessel_name    |-> v.vessel_name,
                  timestamp      |-> v.timestamp,
                  latitude       |-> v.latitude,
                  longitude      |-> v.longitude,
                  index_right    |-> s.index,
                  spill_id       |-> s.spill_id,
                  detection_date |-> s.detection_date,
                  time_to_detection |-> NaT]

\* gpd.sjoin(left, right, predicate='within'): inner join, left index kept,
\* rows ordered by left row, then right row
sjoin(left, right) ==
    LET matches(v) == SelectSeq(right.rows, LAMBDA s : Within(v, s.geometry))
        joined(v)  == [j \in 1 .. Len(matches(v)) |-> JoinRow(v, matches(v)[j])]
    IN  Frame(left.columns,
              Concat([i \in 1 .. Len(left.rows) |-> joined(left.rows[i])]))

\* variant: the upper end of the window is not enforced
InWindow_no_causality(r, hours) ==
    r.timestamp >= r.detection_date - hours * MinutesPerHour

\* variant: the window is taken from its far end backwards
InWindow_older_than(r, hours) ==
    /\ r.timestamp <= r.detection_date
    /\ r.timestamp <= r.detection_date - hours * MinutesPerHour

InWindow(r, hours) ==
    /\ r.timestamp <= r.detection_date
    /\ r.timestamp >= r.detection_date - hours * MinutesPerHour

\* gpd.sjoin dereferences both tables: None makes it raise
sjoin_raises(left, right) == left.none \/ right.none

\* variant: no guard for None
find_candidates_unguarded(s_gdf, v_gdf, hours) ==
    IF sjoin_raises(v_gdf, s_gdf) THEN [raised |-> TRUE, value |-> None]
    ELSE LET candidates == sjoin(v_gdf, s_gdf)
         IN  IF IsEmpty(candidates) THEN [raised |-> FALSE, value |-> EmptyFrame]
             ELSE [raised |-> FALSE,
                   value  |-> Frame(candidates.columns,
                                    SelectSeq(candidates.rows,
                                              LAMBDA r : InWindow(r, hours)))]

find_candidates(s_gdf, v_gdf, hours) ==
    IF s_gdf.none \/ v_gdf.none THEN [raised |-> FALSE, value |-> EmptyFrame]
    ELSE IF sjoin_raises(v_gdf, s_gdf) THEN [raised |-> TRUE, value |-> None]
    ELSE LET candidates == sjoin(v_gdf, s_gdf)
         IN  IF IsEmpty(candidates) THEN [raised |-> FALSE, value |-> EmptyFrame]
             ELSE [raised |-> FALSE,
                   value  |-> Frame(candidates.columns,
                                    SelectSeq(candidates.rows,
                                              LAMBDA r : InWindow(r, hours)))]

(* --------------------------- table helpers ----------------------------- *)

\* the rows at the given positions, in table order
SelectPos(rows, positions) ==
    LET RECURSIVE F(_)
        F(i) == IF i > Len(rows) THEN <<>>
                ELSE (IF i \in positions THEN <<rows[i]>> ELSE <<>>) \o F(i + 1)
    IN  F(1)

\* DataFrame.drop_duplicates(subset=...): keys[i] is the key of rows[i]; the
\* first row of every key is kept
drop_duplicates(rows, keys) ==
    SelectPos(rows, {i \in 1 .. Len(rows) : \A j \in 1 .. (i - 1) : keys[j] # keys[i]})

\* Series.unique(): the distinct values in order of first appearance
unique(values) == drop_duplicates(values, values)

\* sort ascending by rank[i], the sort key of rows[i]; equal keys keep
\* their order
sort_values(rows, rank) ==
    LET RECURSIVE Insert(_, _)
        Insert(p, sorted) ==
            IF sorted = <<>> THEN <<p>>
            ELSE IF rank[p] < rank[Head(sorted)] THEN <<p>> \o sorted
            ELSE <<Head(sorted)>> \o Insert(p, Tail(sorted))
        RECURSIVE Sort(_)
        Sort(n) == IF n = 0 THEN <<>> ELSE Insert(n, Sort(n - 1))
        order == Sort(Len(rows))
    IN  [i \in 1 .. Len(rows) |-> rows[order[i]]]

\* sort key of the decimal string of a one-digit vessel id
MmsiRank(a) == CHOOSE n \in 0 .. 9 : ToString(n) = a

\* sort key of an id text: dated ids by instant, before every other text
TextRank(a) == IF a.kind = "stamp" THEN a.v ELSE 30 * MaxTime + 1

Min(S) == CHOOSE m \in S : \A x \in S : m <= x

Max(S) == CHOOSE m \in S : \A x \in S : m >= x

(* ---------------------------- track lines ------------------------------ *)

\* variant: a line is drawn through the matched points only
plot_vessel_tracks_matched_only(v_gdf, c_df) ==
    LET unique_candidate_mmsi ==
            unique([i \in 1 .. Len(c_df.rows) |-> c_df.rows[i].mmsi])
        track(m)  == SelectSeq(c_df.rows, LAMBDA r : r.mmsi = m)
        points(m) == sort_values(track(m),
                                 [i \in 1 .. Len(track(m)) |-> track(m)[i].timestamp])
        line(m) ==
            LET pts == points(m)
                ts  == {pts[i].timestamp : i \in 1 .. Len(pts)}
            IN  [coordinates |-> [i \in 1 .. Len(pts) |->
                                     <<pts[i].longitude, pts[i].latitude>>],
                 mmsi        |-> m,
                 vessel_name |-> IF "vessel_name" \in v_gdf.columns
                                 THEN [label |-> "name", text |-> pts[1].vessel_name]
                                 ELSE [label |-> "MMSI: ", text |-> m],
                 start_time  |-> strftime(Min(ts)),
                 end_time    |-> strftime(Max(ts))]
        feature(m) == IF Len(points(m)) > 1 THEN <<line(m)>> ELSE <<>>
    IN  Concat([i \in 1 .. Len(unique_candidate_mmsi) |->
                   feature(unique_candidate_mmsi[i])])

plot_vessel_tracks(v_gdf, c_df) ==
    LET unique_candidate_mmsi ==
            unique([i \in 1 .. Len(c_df.rows) |-> c_df.rows[i].mmsi])
        track(m)  == SelectSeq(v_gdf.rows, LAMBDA r : r.mmsi = m)
        points(m) == sort_values(track(m),
                                 [i \in 1 .. Len(track(m)) |-> track(m)[i].timestamp])
        line(m) ==
            LET pts == points(m)
                ts  == {pts[i].timestamp : i \in 1 .. Len(pts)}
            IN  [coordinates |-> [i \in 1 .. Len(pts) |->
                                     <<pts[i].longitude, pts[i].latitude>>],
                 mmsi        |-> m,
                 vessel_name |-> IF "vessel_name" \in v_gdf.columns
                                 THEN [label |-> "name", text |-> pts[1].vessel_name]
                                 ELSE [label |-> "MMSI: ", text |-> m],
                 start_time  |-> strftime(Min(ts)),
                 end_time    |-> strftime(Max(ts))]
        feature(m) == IF Len(points(m)) > 1 THEN <<line(m)>> ELSE <<>>
    IN  Concat([i \in 1 .. Len(unique_candidate_mmsi) |->
                   feature(unique_candidate_mmsi[i])])

(* ------------------------------ analytics ------------------------------ *)

\* variant: the vessel alone is the key
PairKey_mmsi_only(r) == <<r.mmsi, r.mmsi>>

PairKey(r) == <<r.mmsi, r.spill_id>>

\* candidates_df.drop_duplicates(subset=['mmsi', 'spill_id'])
dedup_incidents(c_df) ==
    Frame(c_df.columns,
          drop_duplicates(c_df.rows,
                          [i \in 1 .. Len(c_df.rows) |-> PairKey(c_df.rows[i])]))

\* pd.merge(left, right, on='mmsi', how='left')
merge_names(left, ship_names) ==
    LET hits(l) == SelectSeq(ship_names, LAMBDA n : n.mmsi = l.mmsi)
        out(l)  == IF hits(l) = <<>>
                   THEN <<[mmsi |-> l.mmsi, incident_count |-> l.incident_count,
                           vessel_name |-> "NaN"]>>
                   ELSE [j \in 1 .. Len(hits(l)) |->
                            [mmsi |-> l.mmsi, incident_count |-> l.incident_count,
                             vessel_name |-> hits(l)[j].vessel_name]]
    IN  Concat([i \in 1 .. Len(left) |-> out(left[i])])

count_incidents(ui) ==
    LET mmsis  == unique([i \in 1 .. Len(ui.rows) |-> ui.rows[i].mmsi])
        keys   == sort_values(mmsis, [i \in 1 .. Len(mmsis) |-> MmsiRank(mmsis[i])])
        sizes  == [i \in 1 .. Len(keys) |->
                      [mmsi |-> keys[i],
                       incident_count |->
                           Len(SelectSeq(ui.rows, LAMBDA r : r.mmsi = keys[i])),
                       vessel_name |-> ""]]
        ranked == sort_values(sizes,
                              [i \in 1 .. Len(sizes) |-> 0 - sizes[i].incident_count])
        names  == [i \in 1 .. Len(ui.rows) |->
                      [mmsi |-> ui.rows[i].mmsi,
                       vessel_name |-> ui.rows[i].vessel_name]]
        ship_names == drop_duplicates(names, names)
    IN  IF "vessel_name" \in ui.columns
        THEN Frame({"vessel_name"}, merge_names(ranked, ship_names))
        ELSE Frame({}, ranked)

\* candidates_df['time_to_detection'] = detection_date - timestamp
with_time_to_detection(c_df) ==
    Frame(c_df.columns \cup {"time_to_detection"},
          [i \in 1 .. Len(c_df.rows) |->
              [c_df.rows[i] EXCEPT !.time_to_detection =
                  c_df.rows[i].detection_date - c_df.rows[i].timestamp]])

\* groupby('spill_id')['time_to_detection'].idxmin(): per spill id, in key
\* order, the index label of the first row holding the smallest duration
idxmin_per_spill(rows) ==
    LET ids      == unique([i \in 1 .. Len(rows) |-> rows[i].spill_id])
        keys     == sort_values(ids, [i \in 1 .. Len(ids) |-> TextRank(ids[i])])
        group(k) == SelectSeq(rows, LAMBDA r : r.spill_id = k)
        least(k) == Min({group(k)[i].time_to_detection : i \in 1 .. Len(group(k))})
        first(k) == SelectSeq(group(k), LAMBDA r : r.time_to_detection = least(k))[1]
    IN  [i \in 1 .. Len(keys) |-> first(keys[i]).index]

\* DataFrame.loc[labels]: for every label, every row carrying that label
loc(rows, labels) ==
    Concat([i \in 1 .. Len(labels) |->
               SelectSeq(rows, LAMBDA r : r.index = labels[i])])

prime_suspects(c_df) ==
    Frame(c_df.columns, loc(c_df.rows, idxmin_per_spill(c_df.rows)))

(* ------------------------------ inputs --------------------------------- *)

\* no file in the uploader
AbsentFile == [present |-> FALSE, readable |-> FALSE, columns |-> {}, rows |-> <<>>]

\* a file the reader rejects
UnreadableFile == [present |-> TRUE, readable |-> FALSE, columns |-> {}, rows |-> <<>>]

File(cols, rs) == [present |-> TRUE, readable |-> TRUE, columns |-> cols, rows |-> rs]

IdColumns == {"slick_name", "area_sys"}

DatedColumns == IdColumns \cup {"date", "time"}

AisColumns == {"mmsi", "latitude", "longitude", "BaseDateTime"}

\* the two latest instants: detection times
DetectionTimes == {30 * k : k \in (MaxTime - 1) .. MaxTime}

SpillRow(id, d, t, g) == [slick_name |-> id, date |-> d, time |-> t, geometry |-> g]

AisRow(m, n, t, la, lo) == [mmsi |-> m, vessel_name |-> n, BaseDateTime |-> t,
                            latitude |-> la, longitude |-> lo]

\* spill rows of the upload runs: a dated id or an undated one, and, with
\* date and time columns, a good or a bad date
IdRows == {SpillRow(id, Junk, Junk, PolyA) : id \in {Stamp(30 * MaxTime), Junk}}

DatedRows == {SpillRow(Junk, d, Stamp(30 * MaxTime), PolyA) : d \in {Stamp(0), Junk}}

SpillFiles ==
    {AbsentFile, UnreadableFile,
     File({"slick_name"}, <<SpillRow(Stamp(0), Junk, Junk, PolyA)>>)}
    \cup {File(IdColumns, rs) : rs \in SeqUpTo(IdRows, MaxSpills)}
    \cup {File(DatedColumns, rs) : rs \in SeqUpTo(DatedRows, MaxSpills)}

\* track rows of the upload runs: two good rows and one row for each defect
LoaderAisRows ==
    {AisRow(1, "A", Stamp(t), Lat, 3) : t \in DetectionTimes}
    \cup {AisRow(1, "A", Junk, Lat, 3),
          AisRow(1, "A", Stamp(0), NaN, 3),
          AisRow(1, "A", Stamp(0), Lat, NaN)}

AisFiles ==
    {AbsentFile, UnreadableFile,
     File(AisColumns \ {"latitude"}, <<AisRow(1, "A", Stamp(0), NaN, 3)>>)}
    \cup {File(AisColumns \cup {"vessel_name"}, rs) :
             rs \in SeqUpTo(LoaderAisRows, MaxTracks)}

(* --------------------------- the script run ---------------------------- *)

NoLines == <<>>

\* the script's namespace before its first statement
Fresh ==
    /\ spills_gdf = None
    /\ vessels_gdf = None
    /\ candidates_df = EmptyFrame
    /\ vessel_tracks_geojson = NoLines
    /\ report_df = EmptyFrame
    /\ unique_incidents = EmptyFrame
    /\ ship_incident_counts = EmptyFrame
    /\ prime_suspects_df = EmptyFrame
    /\ exception = FALSE

InitWith(SF, AF) ==
    /\ spills_file \in SF
    /\ ais_file \in AF
    /\ time_window_hours \in Windows
    /\ Fresh
    /\ pc = "start"

Init == InitWith(SpillFiles, AisFiles)

\* if spills_file and ais_file: ... else: st.info(...)
AwaitUpload ==
    /\ pc = "start"
    /\ ~(spills_file.present /\ ais_file.present)
    /\ pc' = "waiting"
    /\ UNCHANGED <<spills_file, ais_file, time_window_hours, spills_gdf,
                   vessels_gdf, candidates_df, vessel_tracks_geojson, report_df,
                   unique_incidents, ship_incident_counts, prime_suspects_df,
                   exception>>

LoadSpills ==
    /\ pc = "start"
    /\ spills_file.present /\ ais_file.present
    /\ spills_gdf' = load_spills_data(spills_file)
    /\ pc' = "spills_loaded"
    /\ UNCHANGED <<spills_file, ais_file, time_window_hours,
                   vessels_gdf, candidates_df, vessel_tracks_geojson, report_df,
                   unique_incidents, ship_incident_counts, prime_suspects_df,
                   exception>>

LoadAis ==
    /\ pc = "spills_loaded"
    /\ vessels_gdf' = load_ais_data(ais_file)
    /\ pc' = "ais_loaded"
    /\ UNCHANGED <<spills_file, ais_file, time_window_hours,
                   spills_gdf, candidates_df, vessel_tracks_geojson, report_df,
                   unique_incidents, ship_incident_counts, prime_suspects_df,
                   exception>>

\* variant: empty tables are let through
must_stop_none_only(s_gdf, v_gdf) == s_gdf.none \/ v_gdf.none

\* the condition of st.stop()
must_stop(s_gdf, v_gdf) ==
    s_gdf.none \/ v_gdf.none \/ IsEmpty(s_gdf) \/ IsEmpty(v_gdf)

Stop ==
    /\ pc = "ais_loaded"
    /\ must_stop(spills_gdf, vessels_gdf)
    /\ pc' = "stopped"
    /\ UNCHANGED <<spills_file, ais_file, time_window_hours, spills_gdf,
                   vessels_gdf, candidates_df, vessel_tracks_geojson, report_df,
                   unique_incidents, ship_incident_counts, prime_suspects_df,
                   exception>>

FindCandidates ==
    /\ pc = "ais_loaded"
    /\ ~must_stop(spills_gdf, vessels_gdf)
    /\ LET result == find_candidates(spills_gdf, vessels_gdf, time_window_hours)
       IN  /\ candidates_df' = result.value
           /\ exception' = result.raised
           /\ pc' = IF result.raised THEN "crashed" ELSE "matched"
    /\ UNCHANGED <<spills_file, ais_file, time_window_hours, spills_gdf,
                   vessels_gdf, vessel_tracks_geojson, report_df,
                   unique_incidents, ship_incident_counts, prime_suspects_df>>

\* the map section: the track lines are built only for a non-empty match
DrawMap ==
    /\ pc = "matched"
    /\ vessel_tracks_geojson' =
           IF IsEmpty(candidates_df) THEN vessel_tracks_geojson
           ELSE plot_vessel_tracks(vessels_gdf, candidates_df)
    /\ pc' = "mapped"
    /\ UNCHANGED <<spills_file, ais_file, time_window_hours, spills_gdf,
                   vessels_gdf, candidates_df, report_df,
                   unique_incidents, ship_incident_counts, prime_suspects_df,
                   exception>>

\* the candidate table and the analytics tabs
Analytics ==
    /\ pc = "mapped"
    /\ IF IsEmpty(candidates_df)
       THEN UNCHANGED <<candidates_df, report_df, unique_incidents,
                        ship_incident_counts, prime_suspects_df>>
       ELSE /\ report_df' = Frame(candidates_df.columns,
                                  drop_duplicates(candidates_df.rows,
                                      [i \in 1 .. Len(candidates_df.rows) |->
                                          <<candidates_df.rows[i].spill_id,
                                            candidates_df.rows[i].mmsi>>]))
            /\ unique_incidents' = dedup_incidents(candidates_df)
            /\ ship_incident_counts' = count_incidents(unique_incidents')
            /\ candidates_df' = with_time_to_detection(candidates_df)
            /\ prime_suspects_df' = prime_suspects(candidates_df')
    /\ pc' = "done"
    /\ UNCHANGED <<spills_file, ais_file, time_window_hours, spills_gdf,
                   vessels_gdf, vessel_tracks_geojson, exception>>

\* moving the slider starts the script again from its first statement
Rerun ==
    /\ pc \in {"waiting", "stopped", "done"}
    /\ time_window_hours' \in Windows \ {time_window_hours}
    /\ spills_gdf' = None
    /\ vessels_gdf' = None
    /\ candidates_df' = EmptyFrame
    /\ vessel_tracks_geojson' = NoLines
    /\ report_df' = EmptyFrame
    /\ unique_incidents' = EmptyFrame
    /\ ship_incident_counts' = EmptyFrame
    /\ prime_suspects_df' = EmptyFrame
    /\ exception' = FALSE
    /\ pc' = "start"
    /\ UNCHANGED <<spills_file, ais_file>>

Next ==
    \/ AwaitUpload
    \/ LoadSpills
    \/ LoadAis
    \/ Stop
    \/ FindCandidates
    \/ DrawMap
    \/ Analytics
    \/ Rerun

Spec == Init /\ [][Next]_vars

(* ---------------- runs over richer, well-formed uploads ---------------- *)

\* two overlapping spills with distinct ids: the earlier over PolyA, the
\* later over PolyB
AnalyticsSpillRows ==
    {SpillRow(Stamp(30 * (MaxTime - 1)), Junk, Junk, PolyA),
     SpillRow(Stamp(30 * MaxTime), Junk, Junk, PolyB)}

\* vessel 1 reports under two names, vessel 2 under one
Vessels == {<<1, "A">>, <<1, "B">>, <<2, "A">>}

AnalyticsAisRows ==
    {AisRow(v[1], v[2], Stamp(t), Lat, lo) :
         v \in Vessels, t \in DetectionTimes, lo \in Lons}

AnalyticsSpillFiles ==
    {AbsentFile} \cup {File(IdColumns, rs) : rs \in SeqUpTo(AnalyticsSpillRows, MaxSpills)}

AnalyticsAisFiles ==
    {File(AisColumns \cup {"vessel_name"}, rs) :
         rs \in SeqUpTo(AnalyticsAisRows, MaxTracks)}

InitAnalytics == InitWith(AnalyticsSpillFiles, AnalyticsAisFiles)

SpecAnalytics == InitAnalytics /\ [][Next]_vars

(* ------------------- find_candidates called directly ------------------- *)

MatchSpillRows ==
    {SpillRow(Stamp(t), Junk, Junk, g) : t \in DetectionTimes, g \in Polys}

MatchAisRows ==
    {AisRow(1, "A", Stamp(t), Lat, lo) : t \in Times, lo \in Lons}

\* the tables the loaders can hand over, an empty spill table, and None
MatchSpillTables ==
    {None, Frame({}, <<>>)}
    \cup {load_spills_data(File(IdColumns, rs)) :
             rs \in SeqUpTo(MatchSpillRows, MaxSpills)}

MatchTrackTables ==
    {None}
    \cup {load_ais_data(File(AisColumns \cup {"vessel_name"}, rs)) :
             rs \in SeqUpTo(MatchAisRows, MaxTracks)}

InitMatch ==
    /\ spills_file = AbsentFile
    /\ ais_file = AbsentFile
    /\ time_window_hours \in Windows
    /\ spills_gdf \in MatchSpillTables
    /\ vessels_gdf \in MatchTrackTables
    /\ candidates_df = EmptyFrame
    /\ vessel_tracks_geojson = NoLines
    /\ report_df = EmptyFrame
    /\ unique_incidents = EmptyFrame
    /\ ship_incident_counts = EmptyFrame
    /\ prime_suspects_df = EmptyFrame
    /\ exception = FALSE
    /\ pc = "call"

CallFindCandidates ==
    /\ pc = "call"
    /\ LET result == find_candidates(spills_gdf, vessels_gdf, time_window_hours)
       IN  /\ candidates_df' = result.value
           /\ exception' = result.raised
           /\ pc' = IF result.raised THEN "crashed" ELSE "returned"
    /\ UNCHANGED <<spills_file, ais_file, time_window_hours, spills_gdf,
                   vessels_gdf, vessel_tracks_geojson, report_df,
                   unique_incidents, ship_incident_counts, prime_suspects_df>>

\* the same tables are matched again under another window
CallAgain ==
    /\ pc = "returned"
    /\ time_window_hours' \in Windows \ {time_window_hours}
    /\ candidates_df' = EmptyFrame
    /\ pc' = "call"
    /\ UNCHANGED <<spills_file, ais_file, spills_gdf,
                   vessels_gdf, vessel_tracks_geojson, report_df,
                   unique_incidents, ship_incident_counts, prime_suspects_df,
                   exception>>

NextMatch ==
    \/ CallFindCandidates
    \/ CallAgain

SpecMatch == InitMatch /\ [][NextMatch]_vars

(* ============================ properties =============================== *)

RowsOf(df) == IF df.none THEN <<>> ELSE df.rows

\* the (track label, spill label) pairs of a joined table
Pairs(df) == {<<df.rows[k].index, df.rows[k].index_right>> : k \in 1 .. Len(df.rows)}

RECURSIVE SumCounts(_)
SumCounts(rows) ==
    IF rows = <<>> THEN 0 ELSE Head(rows).incident_count + SumCounts(Tail(rows))

(* C1: every row find_candidates returns has                               *)
(* 0 <= detection_date - timestamp <= window; none lies after detection.   *)
C1_Causality ==
    pc = "returned" =>
        \A k \in 1 .. Len(candidates_df.rows) :
            LET r == candidates_df.rows[k]
            IN  /\ 0 <= r.detection_date - r.timestamp
                /\ r.detection_date - r.timestamp <= time_window_hours * MinutesPerHour
                /\ ~(r.timestamp > r.detection_date)

\* a point inside a polygon but later than its detection was left out
C1_Witness ==
    /\ pc = "returned"
    /\ ~IsEmpty(candidates_df)
    /\ \E i \in 1 .. Len(vessels_gdf.rows), j \in 1 .. Len(spills_gdf.rows) :
           /\ vessels_gdf.rows[i].longitude = 3
           /\ vessels_gdf.rows[i].timestamp > spills_gdf.rows[j].detection_date

(* C4: for the same tables, every pair matched under a window is matched   *)
(* under every wider window: the result never shrinks as the window grows. *)
C4_WindowMonotone ==
    pc = "returned" =>
        \A w \in Windows :
            LET other == find_candidates(spills_gdf, vessels_gdf, w).value
            IN  /\ w <= time_window_hours => Pairs(other) \subseteq Pairs(candidates_df)
                /\ w >= time_window_hours => Pairs(candidates_df) \subseteq Pairs(other)

\* a narrower window returns some of the pairs, but not all of them
C4_Witness ==
    /\ pc = "returned"
    /\ \E w \in Windows :
           LET other == find_candidates(spills_gdf, vessels_gdf, w).value
           IN  /\ w < time_window_hours
               /\ Pairs(other) # {}
               /\ Pairs(other) # Pairs(candidates_df)

\* the match predicate as the specification words it
Matches(v, s, hours) ==
    /\ s.geometry.xmin < v.longitude /\ v.longitude < s.geometry.xmax
    /\ s.geometry.ymin < v.latitude  /\ v.latitude < s.geometry.ymax
    /\ s.detection_date - hours * MinutesPerHour <= v.timestamp
    /\ v.timestamp <= s.detection_date

(* C5: find_candidates returns a row for (p, s) iff p lies within s's      *)
(* polygon and p's timestamp is in [detection - window, detection]; one    *)
(* row per such pair, so a point inside k matching polygons gives k rows.  *)
C5_MatchExactly ==
    pc = "returned" =>
        LET V == RowsOf(vessels_gdf)
            S == RowsOf(spills_gdf)
            C == candidates_df.rows
        IN  /\ \A i \in 1 .. Len(V), j \in 1 .. Len(S) :
                   Cardinality({k \in 1 .. Len(C) :
                                   /\ C[k].index = V[i].index
                                   /\ C[k].index_right = S[j].index})
                       = IF Matches(V[i], S[j], time_window_hours) THEN 1 ELSE 0
            /\ \A k \in 1 .. Len(C) :
                   \E i \in 1 .. Len(V), j \in 1 .. Len(S) :
                       /\ C[k].index = V[i].index
                       /\ C[k].index_right = S[j].index
                       /\ C[k].timestamp = V[i].timestamp
                       /\ C[k].longitude = V[i].longitude
                       /\ C[k].detection_date = S[j].detection_date
                       /\ C[k].spill_id = S[j].spill_id
            /\ \A i \in 1 .. Len(V) :
                   Cardinality({k \in 1 .. Len(C) : C[k].index = V[i].index})
                       = Cardinality({j \in 1 .. Len(S) :
                                         Matches(V[i], S[j], time_window_hours)})

\* one point gave two rows, one per overlapping polygon, and a point on
\* an edge gave none for that polygon
C5_Witness ==
    /\ pc = "returned"
    /\ \E k1, k2 \in 1 .. Len(candidates_df.rows) :
           /\ k1 # k2
           /\ candidates_df.rows[k1].index = candidates_df.rows[k2].index
    /\ \E i \in 1 .. Len(vessels_gdf.rows) : vessels_gdf.rows[i].longitude = 4

ZeroRows(df) == df.none \/ IsEmpty(df)

(* C6: find_candidates with no spills or no tracks, None included, raises  *)
(* nothing and returns an empty table.                                     *)
C6_EmptyInput ==
    (pc # "call" /\ (ZeroRows(spills_gdf) \/ ZeroRows(vessels_gdf))) =>
        /\ pc = "returned"
        /\ ~exception
        /\ ~candidates_df.none
        /\ IsEmpty(candidates_df)

\* the call returned for a None table on one side and rows on the other
C6_Witness ==
    /\ pc = "returned"
    /\ spills_gdf.none
    /\ ~vessels_gdf.none
    /\ ~IsEmpty(vessels_gdf)

\* a present file lacks a required column
LacksField(f, required) == f.readable /\ ~(required \subseteq f.columns)

SpillRowUsable(f, r) ==
    IF {"date", "time"} \subseteq f.columns
    THEN r.date.kind = "stamp" /\ r.time.kind = "stamp"
    ELSE r.slick_name.kind = "stamp"

AisRowUsable(r) ==
    r.BaseDateTime.kind = "stamp" /\ r.latitude # NaN /\ r.longitude # NaN

NoUsableSpills(f) ==
    f.readable /\ \A i \in 1 .. Len(f.rows) : ~SpillRowUsable(f, f.rows[i])

NoUsableTracks(f) ==
    f.readable /\ \A i \in 1 .. Len(f.rows) : ~AisRowUsable(f.rows[i])

Unusable ==
    \/ LacksField(spills_file, IdColumns)
    \/ LacksField(ais_file, AisColumns)
    \/ NoUsableSpills(spills_file)
    \/ NoUsableTracks(ais_file)

(* C7: in a run where an input lacks a required field or keeps no usable   *)
(* record, the run halts: find_candidates and the analytics never run.     *)
C7_HaltBeforeMatching ==
    (spills_file.present /\ ais_file.present /\ Unusable) =>
        /\ pc \in {"start", "spills_loaded", "ais_loaded", "stopped"}
        /\ candidates_df = EmptyFrame
        /\ vessel_tracks_geojson = NoLines
        /\ report_df = EmptyFrame
        /\ unique_incidents = EmptyFrame
        /\ ship_incident_counts = EmptyFrame
        /\ prime_suspects_df = EmptyFrame

\* the run halted although the spills loaded: every track row was dropped
C7_Witness ==
    /\ pc = "stopped"
    /\ ~spills_gdf.none
    /\ ~vessels_gdf.none
    /\ Len(ais_file.rows) > 0
    /\ NoUsableTracks(ais_file)

(* C10: every spill the loader returns has a detection date, every track   *)
(* point it returns has a timestamp, a latitude and a longitude, and no    *)
(* candidate row stems from a record with a bad date or a missing          *)
(* coordinate.                                                             *)
C10_OnlyValidRecords ==
    /\ \A i \in 1 .. Len(spills_gdf.rows) : spills_gdf.rows[i].detection_date # NaT
    /\ \A i \in 1 .. Len(vessels_gdf.rows) :
           /\ vessels_gdf.rows[i].timestamp # NaT
           /\ vessels_gdf.rows[i].latitude # NaN
           /\ vessels_gdf.rows[i].longitude # NaN
    /\ \A k \in 1 .. Len(candidates_df.rows) :
           /\ AisRowUsable(ais_file.rows[candidates_df.rows[k].index + 1])
           /\ SpillRowUsable(spills_file,
                             spills_file.rows[candidates_df.rows[k].index_right + 1])

\* a match was found although both loaders had dropped records
C10_Witness ==
    /\ pc = "matched"
    /\ ~IsEmpty(candidates_df)
    /\ Len(vessels_gdf.rows) < Len(ais_file.rows)
    /\ Len(spills_gdf.rows) < Len(spills_file.rows)

\* the rows of a table that carry a given spill id
OfSpill(df, id) == SelectSeq(df.rows, LAMBDA r : r.spill_id = id)

\* spill_id is unique per spill record
DistinctSpillIds ==
    \A a, b \in 1 .. Len(spills_gdf.rows) :
        a # b => spills_gdf.rows[a].spill_id # spills_gdf.rows[b].spill_id

(* C2: for every spill with a candidate, the prime-suspect table holds     *)
(* exactly one row of that spill id, and its time_to_detection is the      *)
(* least one among the spill's candidates, overlapping polygons included.  *)
C2_OnePrimeSuspect ==
    (pc = "done" /\ ~IsEmpty(candidates_df) /\ DistinctSpillIds) =>
        \A id \in {candidates_df.rows[k].spill_id : k \in 1 .. Len(candidates_df.rows)} :
            LET mine == OfSpill(candidates_df, id)
                best == OfSpill(prime_suspects_df, id)
            IN  /\ Len(best) = 1
                /\ best[1].time_to_detection =
                       Min({mine[k].time_to_detection : k \in 1 .. Len(mine)})

(* C3: the incident_count column of the displayed vessel count leaderboard *)
(* sums to the number of rows of unique_incidents, also when one mmsi      *)
(* carries several vessel names.                                           *)
C3_LeaderboardSum ==
    (pc = "done" /\ ~IsEmpty(candidates_df)) =>
        SumCounts(ship_incident_counts.rows) = Len(unique_incidents.rows)

KeyOf(r) == <<r.mmsi, r.spill_id>>

KeysOf(df) == {KeyOf(df.rows[k]) : k \in 1 .. Len(df.rows)}

OneRowPerKey(df) ==
    \A a, b \in 1 .. Len(df.rows) : a # b => KeyOf(df.rows[a]) # KeyOf(df.rows[b])

(* C8: unique_incidents holds one row for each (mmsi, spill_id) pair of    *)
(* the candidate set and none for any other pair; deduplicating it again   *)
(* on the same key changes nothing.                                        *)
C8_UniqueIncidents ==
    (pc = "done" /\ ~IsEmpty(candidates_df)) =>
        /\ KeysOf(unique_incidents) = KeysOf(candidates_df)
        /\ OneRowPerKey(unique_incidents)
        /\ Pairs(unique_incidents) \subseteq Pairs(candidates_df)
        /\ drop_duplicates(unique_incidents.rows,
                           [i \in 1 .. Len(unique_incidents.rows) |->
                               KeyOf(unique_incidents.rows[i])])
               = unique_incidents.rows
        /\ KeysOf(report_df) = KeysOf(candidates_df)
        /\ OneRowPerKey(report_df)

\* several points of one vessel in one spill collapsed, and two pairs remain
C8_Witness ==
    /\ pc = "done"
    /\ Len(unique_incidents.rows) >= 2
    /\ \E a, b \in 1 .. Len(candidates_df.rows) :
           /\ a # b
           /\ KeyOf(candidates_df.rows[a]) = KeyOf(candidates_df.rows[b])
           /\ candidates_df.rows[a].index # candidates_df.rows[b].index

\* every track point of a vessel, in file order
PointsOf(m) == SelectSeq(vessels_gdf.rows, LAMBDA r : r.mmsi = m)

LinesOf(m) == SelectSeq(vessel_tracks_geojson, LAMBDA l : l.mmsi = m)

\* the line runs through exactly the points pts, by ascending timestamp
RunsThrough(l, pts) ==
    /\ Len(l.coordinates) = Len(pts)
    /\ \E order \in [1 .. Len(pts) -> 1 .. Len(pts)] :
           /\ \A a, b \in 1 .. Len(pts) : a # b => order[a] # order[b]
           /\ \A a \in 1 .. Len(pts) :
                  l.coordinates[a] = <<pts[order[a]].longitude, pts[order[a]].latitude>>
           /\ \A a, b \in 1 .. Len(pts) :
                  a < b => pts[order[a]].timestamp <= pts[order[b]].timestamp

(* C9: a track line is emitted for a vessel iff its mmsi is among the      *)
(* candidates and the full track table holds at least 2 of its points; the *)
(* line runs through all its points of the full table by ascending         *)
(* timestamp, start_time and end_time being the earliest and the latest.   *)
C9_TrackLines ==
    pc \in {"mapped", "done"} =>
        LET matched == {candidates_df.rows[k].mmsi : k \in 1 .. Len(candidates_df.rows)}
            known   == {vessels_gdf.rows[k].mmsi : k \in 1 .. Len(vessels_gdf.rows)}
        IN  /\ \A k \in 1 .. Len(vessel_tracks_geojson) :
                   vessel_tracks_geojson[k].mmsi \in matched
            /\ \A m \in known \cup matched :
                   /\ Len(LinesOf(m)) = IF m \in matched /\ Len(PointsOf(m)) >= 2
                                        THEN 1 ELSE 0
                   /\ \A k \in 1 .. Len(LinesOf(m)) :
                          LET l  == LinesOf(m)[k]
                              ts == {PointsOf(m)[i].timestamp : i \in 1 .. Len(PointsOf(m))}
                          IN  /\ RunsThrough(l, PointsOf(m))
                              /\ l.start_time = strftime(Min(ts))
                              /\ l.end_time = strftime(Max(ts))

\* a line was drawn through a point that matched no spill, for a vessel
\* whose points are not in time order in the file
C9_Witness ==
    /\ pc = "mapped"
    /\ \E k \in 1 .. Len(vessel_tracks_geojson) :
           LET pts == PointsOf(vessel_tracks_geojson[k].mmsi)
           IN  /\ pts[1].timestamp > pts[2].timestamp
               /\ \E i \in 1 .. Len(pts) :
                      \A c \in 1 .. Len(candidates_df.rows) :
                          candidates_df.rows[c].index # pts[i].index

====
